---- MODULE Spec2Model ----
(***************************************************************************)
(* Hospital bed dashboard (src/hospital_app.py): the cached synthetic      *)
(* dataset generator generate_data and the filter / KPI / aggregation      *)
(* pipeline that the script runs top to bottom on every render cycle.      *)
(***************************************************************************)
EXTENDS Integers, Sequences, FiniteSets

(* ---------------------------- bounds ---------------------------------- *)
\* Length of the trailing window of dates (the program uses periods=30).
Periods == 2
\* The clock starts on day 0 and can reach day MaxDay.
MaxDay == 1
\* Times of day the clock can show: 0 (midnight) .. MaxTod.
MaxTod == 1
\* The seeded random stream is one of the streams StreamFrom(0..MaxStart).
MaxStart == 24

(* --------------------------- constants -------------------------------- *)
hospitals == <<"City Hospital", "Central Hospital", "National Medical Center">>
wards == <<"ICU", "Emergency", "General", "Maternity">>

Capacity(ward) ==
    CASE ward = "ICU" -> 20
      [] ward = "Emergency" -> 30
      [] ward = "General" -> 50
      [] ward = "Maternity" -> 25

\* A Timestamp is a calendar day plus a time of day.
Timestamp(day, tod) == [day |-> day, tod |-> tod]
Times == {Timestamp(d, s) : d \in 0..MaxDay, s \in 0..MaxTod}
NotBefore(t, u) == t.day > u.day \/ (t.day = u.day /\ t.tod >= u.tod)

\* Timestamp.date() / Series.dt.date: the calendar day, time of day dropped.
DateOf(ts) == ts.day

\* pd.date_range(end=today, periods=Periods): daily steps ending at `today`,
\* every element keeping today's time of day (no normalisation).
date_range(today) ==
    [k \in 1..Periods |-> Timestamp(today.day - (Periods - k), today.tod)]

(* ------------------------- random stream ------------------------------ *)
NumGroups == Periods * Len(hospitals) * Len(wards)

\* The raw output of the generator after np.random.seed(42).  Its values are
\* not computed here: the stream is one fixed member of a family, chosen in
\* Init, in which every draw position sees every residue of every range.
StreamFrom(a) == [k \in 0..(NumGroups - 1) |-> a + k]
Streams == {StreamFrom(a) : a \in 0..MaxStart}

\* Variant of randint with the upper bound included (as random.randint has it).
randintInclusive(low, high, raw) == low + (raw % (high - low + 1))

\* np.random.randint(low, high): an integer of the half-open range [low, high).
randint(low, high, raw) == low + (raw % (high - low))

\* Variant of HalfCapacity one below the rounded-down half.
HalfCapacityLess(capacity) == (capacity - 1) \div 2

\* int(capacity*0.5)
HalfCapacity(capacity) == capacity \div 2

(* --------------------------- generate_data ---------------------------- *)
DigitChar(d) ==
    CASE d = 0 -> "0" [] d = 1 -> "1" [] d = 2 -> "2" [] d = 3 -> "3" [] d = 4 -> "4"
      [] d = 5 -> "5" [] d = 6 -> "6" [] d = 7 -> "7" [] d = 8 -> "8" [] d = 9 -> "9"

RECURSIVE Digits(_)
Digits(n) == IF n < 10 THEN <<DigitChar(n)>>
             ELSE Append(Digits(n \div 10), DigitChar(n % 10))

\* f"B-{bed_no}"
BedId(bed_no) == <<"B", "-">> \o Digits(bed_no)

\* Variant of GroupRows that appends the occupied beds only.
GroupRowsOccupiedOnly(date, hosp, ward, capacity, occupied, bed_no) ==
    [j \in 1..occupied |->
        [date |-> date, hospital |-> hosp, ward |-> ward,
         bed_id |-> BedId(bed_no + (j - 1)), occupied |-> 1]]

\* Variant of GroupRows that numbers the beds within each group.
GroupRowsLocalIds(date, hosp, ward, capacity, occupied, bed_no) ==
    [j \in 1..capacity |->
        [date |-> date, hospital |-> hosp, ward |-> ward,
         bed_id |-> BedId(j),
         occupied |-> IF (j - 1) < occupied THEN 1 ELSE 0]]

\* The inner loop `for i in range(capacity)` of one (date, hosp, ward) group,
\* entered with the counter at bed_no.
GroupRows(date, hosp, ward, capacity, occupied, bed_no) ==
    [j \in 1..capacity |->
        [date |-> date, hospital |-> hosp, ward |-> ward,
         bed_id |-> BedId(bed_no + (j - 1)),
         occupied |-> IF (j - 1) < occupied THEN 1 ELSE 0]]

\* The (date, hosp, ward) triples in the order of the three nested loops.
Groups(dates) ==
    [g \in 1..(Len(dates) * Len(hospitals) * Len(wards)) |->
        [date |-> dates[((g - 1) \div (Len(hospitals) * Len(wards))) + 1],
         hosp |-> hospitals[(((g - 1) \div Len(wards)) % Len(hospitals)) + 1],
         ward |-> wards[((g - 1) % Len(wards)) + 1]]]

RECURSIVE GenLoop(_, _, _, _, _, _)
GenLoop(groups, g, pos, bed_no, raws, acc) ==
    IF g > Len(groups) THEN [data |-> acc, bed_no |-> bed_no, rng |-> pos]
    ELSE LET capacity == Capacity(groups[g].ward)
             occupied == randint(HalfCapacity(capacity), capacity, raws[pos])
         IN GenLoop(groups, g + 1, pos + 1, bed_no + capacity, raws,
                    acc \o GroupRows(groups[g].date, groups[g].hosp, groups[g].ward,
                                     capacity, occupied, bed_no))

\* generate_data() run at clock time `today` on the seeded stream `raws`:
\* np.random.seed(42) rewinds the stream to position 0, bed_no starts at 1.
generate_data(today, raws) ==
    GenLoop(Groups(date_range(today)), 1, 0, 1, raws, <<>>)

(* ------------------------------ widgets ------------------------------- *)
\* Python's ordering of the strings the script sorts or groups by.
StrOrder == <<"Central Hospital", "City Hospital", "Critical", "Emergency", "General",
              "ICU", "Maternity", "National Medical Center", "Non-Critical">>
StrRank(s) == CHOOSE i \in 1..Len(StrOrder) : StrOrder[i] = s
TsRank(ts) == ts.day * (MaxTod + 1) + ts.tod

Column(rows, col) == {rows[i][col] : i \in DOMAIN rows}

\* selectbox options: ["All"] + sorted(df["hospital"].unique())
HospitalOptions(d) == {"All"} \cup Column(d, "hospital")
\* multiselect options: df["ward"].unique()
WardOptions(d) == Column(d, "ward")
\* slider bounds: df["date"].min().date(), df["date"].max().date()
SliderMin(d) == LET days == {DateOf(x) : x \in Column(d, "date")}
                IN CHOOSE m \in days : \A x \in days : m <= x
SliderMax(d) == LET days == {DateOf(x) : x \in Column(d, "date")}
                IN CHOOSE m \in days : \A x \in days : m >= x

Criteria(h, w, b, c, lo, hi) ==
    [hospital |-> h, ward |-> w, bed_status |-> b, critical_view |-> c,
     date_range |-> <<lo, hi>>]

\* The widgets' values on a fresh page load.
DefaultCriteria(d) ==
    Criteria("All", WardOptions(d), "All", FALSE, SliderMin(d), SliderMax(d))

\* One user interaction changes one widget and triggers a rerun: another
\* hospital or bed status, the checkbox toggled, one ward added to or removed
\* from the multiselect or the multiselect cleared, one slider handle dragged
\* (the slider keeps start <= end).
OneChange(c, d) ==
    LET lo == SliderMin(d)
        hi == SliderMax(d)
    IN  {[c EXCEPT !.hospital = h] : h \in HospitalOptions(d) \ {c.hospital}}
        \cup {[c EXCEPT !.ward = c.ward \cup {w}] : w \in WardOptions(d) \ c.ward}
        \cup {[c EXCEPT !.ward = c.ward \ {w}] : w \in c.ward}
        \cup {[c EXCEPT !.ward = {}] : w \in c.ward}
        \cup {[c EXCEPT !.bed_status = b] :
                b \in {"All", "Available", "Occupied"} \ {c.bed_status}}
        \cup {[c EXCEPT !.critical_view = ~c.critical_view]}
        \cup {[c EXCEPT !.date_range = <<a, c.date_range[2]>>] :
                a \in (lo..c.date_range[2]) \ {c.date_range[1]}}
        \cup {[c EXCEPT !.date_range = <<c.date_range[1], b>>] :
                b \in (c.date_range[1]..hi) \ {c.date_range[2]}}

(* ----------------------------- filtering ------------------------------ *)
HospitalFilter(rows, hospital) ==
    IF hospital # "All" THEN SelectSeq(rows, LAMBDA r : r.hospital = hospital)
    ELSE rows

\* Variant of WardFilter that treats an empty selection as "all wards".
WardFilterEmptyIsAll(rows, ward) ==
    IF ward = {} THEN rows ELSE SelectSeq(rows, LAMBDA r : r.ward \in ward)

WardFilter(rows, ward) == SelectSeq(rows, LAMBDA r : r.ward \in ward)

CriticalFilter(rows, critical_view) ==
    IF critical_view THEN SelectSeq(rows, LAMBDA r : r.ward \in {"ICU", "Emergency"})
    ELSE rows

StatusFilter(rows, bed_status) ==
    IF bed_status = "Available" THEN SelectSeq(rows, LAMBDA r : r.occupied = 0)
    ELSE IF bed_status = "Occupied" THEN SelectSeq(rows, LAMBDA r : r.occupied = 1)
    ELSE rows

DateFilter(rows, bounds) ==
    SelectSeq(rows, LAMBDA r : /\ DateOf(r.date) >= bounds[1]
                               /\ DateOf(r.date) <= bounds[2])

\* Variant of Filter in which the critical-only switch replaces the ward
\* selection instead of narrowing it.
FilterCriticalReplaces(d, c) ==
    DateFilter(
      StatusFilter(
        IF c.critical_view
        THEN SelectSeq(HospitalFilter(d, c.hospital),
                       LAMBDA r : r.ward \in {"ICU", "Emergency"})
        ELSE WardFilter(HospitalFilter(d, c.hospital), c.ward),
        c.bed_status),
      c.date_range)

\* Lines 86-104: the five filters in sequence.
Filter(d, c) ==
    DateFilter(
      StatusFilter(
        CriticalFilter(
          WardFilter(HospitalFilter(d, c.hospital), c.ward),
          c.critical_view),
        c.bed_status),
      c.date_range)

(* ------------------------- KPIs and aggregates ------------------------ *)
\* Series.nunique() of the bed_id column
nunique(rows) == Cardinality(Column(rows, "bed_id"))

\* Series.sum() of the occupied column
RECURSIVE SumRange(_, _, _)
SumRange(rows, lo, hi) ==
    IF lo > hi THEN 0
    ELSE IF lo = hi THEN rows[lo].occupied
    ELSE LET mid == (lo + hi) \div 2
         IN SumRange(rows, lo, mid) + SumRange(rows, mid + 1, hi)
sum(rows) == SumRange(rows, 1, Len(rows))

\* a / b as an exact fraction; den = 0 stands for the NaN or inf that a
\* division by zero yields in pandas / numpy.  Float rounding is not modelled.
Frac(a, b) == [num |-> a, den |-> b]
\* occupied / total * 100
Pct(occupied, total) == Frac(occupied * 100, total)

\* Variant of OccRate without the guard on total_beds.
OccRateUnguarded(occupied, total_beds) == Pct(occupied, total_beds)

\* (occupied / total_beds * 100) if total_beds else 0
OccRate(occupied, total_beds) ==
    IF total_beds # 0 THEN Pct(occupied, total_beds) ELSE Frac(0, 1)

Kpi(rows) ==
    LET total_beds == nunique(rows)
        occupied == sum(rows)
    IN [total_beds |-> total_beds, occupied |-> occupied,
        available |-> total_beds - occupied,
        occ_rate |-> OccRate(occupied, total_beds)]

\* The keys of a groupby, ascending (groupby sorts its keys).
RECURSIVE Ascending(_)
Ascending(N) ==
    IF N = {} THEN <<>>
    ELSE LET m == CHOOSE x \in N : \A y \in N : x <= y
         IN <<m>> \o Ascending(N \ {m})
\* ranked: a set of <<rank, key>> pairs; the keys by ascending rank.
SortedKeys(ranked) ==
    LET ranks == Ascending({p[1] : p \in ranked})
    IN [k \in 1..Len(ranks) |-> (CHOOSE p \in ranked : p[1] = ranks[k])[2]]

\* Position of a group key in the ascending order of its column.
KeyRank(key, col) == IF col = "date" THEN TsRank(key) ELSE StrRank(key)

\* data.groupby(col).agg(total=("bed_id","nunique"), occupied=("occupied","sum"))
\* followed by the percentage column occupied / total * 100.
GroupPct(rows, col) ==
    LET keys == SortedKeys({<<KeyRank(k, col), k>> : k \in Column(rows, col)})
    IN [k \in 1..Len(keys) |->
          LET grp == SelectSeq(rows, LAMBDA r : r[col] = keys[k])
              total == nunique(grp)
              occupied == sum(grp)
          IN [key |-> keys[k], total |-> total, occupied |-> occupied,
              pct |-> Pct(occupied, total)]]

Trend(rows) == GroupPct(rows, "date")
WardUtil(rows) == GroupPct(rows, "ward")
HospitalUtil(rows) == GroupPct(rows, "hospital")

\* "Critical" if x in ["ICU", "Emergency"] else "Non-Critical"
Category(ward) == IF ward \in {"ICU", "Emergency"} THEN "Critical" ELSE "Non-Critical"

\* data["category"] = data["ward"].apply(...)
WithCategory(rows) ==
    [i \in DOMAIN rows |->
        [date |-> rows[i].date, hospital |-> rows[i].hospital, ward |-> rows[i].ward,
         bed_id |-> rows[i].bed_id, occupied |-> rows[i].occupied,
         category |-> Category(rows[i].ward)]]

CriticalCmp(rows) == GroupPct(WithCategory(rows), "category")

\* data.groupby("date")["occupied"].sum()
DailyLoad(rows) ==
    LET keys == SortedKeys({<<TsRank(k), k>> : k \in Column(rows, "date")})
    IN [k \in 1..Len(keys) |->
          [key |-> keys[k],
           occupied |-> sum(SelectSeq(rows, LAMBDA r : r.date = keys[k]))]]

\* {0: "Available", 1: "Occupied"}
StatusLabel(occupied) == IF occupied = 1 THEN "Occupied" ELSE "Available"

\* Variant of AvailabilityDist that always reports both statuses.
AvailabilityDistBothRows(rows) ==
    <<[status |-> "Occupied", count |-> sum(rows)],
      [status |-> "Available", count |-> Len(rows) - sum(rows)]>>

\* data["occupied"].map(...).value_counts(): one row per status that occurs,
\* largest count first (equal counts in order of first occurrence).
AvailabilityDist(rows) ==
    LET n1 == sum(rows)
        n0 == Len(rows) - n1
        first == IF rows = <<>> THEN 0 ELSE rows[1].occupied
        r0 == [status |-> StatusLabel(0), count |-> n0]
        r1 == [status |-> StatusLabel(1), count |-> n1]
    IN IF n0 = 0 /\ n1 = 0 THEN <<>>
       ELSE IF n0 = 0 THEN <<r1>>
       ELSE IF n1 = 0 THEN <<r0>>
       ELSE IF n1 > n0 \/ (n1 = n0 /\ first = 1) THEN <<r1, r0>>
       ELSE <<r0, r1>>

\* data.groupby(["hospital", "ward"]).agg(occ=("occupied", "mean"))
Heatmap(rows) ==
    LET keys == SortedKeys({<<StrRank(rows[i].hospital) * Len(StrOrder)
                                + StrRank(rows[i].ward),
                              <<rows[i].hospital, rows[i].ward>>>> : i \in DOMAIN rows})
    IN [k \in 1..Len(keys) |->
          LET grp == SelectSeq(rows, LAMBDA r : <<r.hospital, r.ward>> = keys[k])
          IN [hospital |-> keys[k][1], ward |-> keys[k][2],
              occ |-> Frac(sum(grp), Len(grp))]]

\* data[["date", "hospital", "ward", "bed_id", "status"]]
LiveTable(rows) ==
    [i \in DOMAIN rows |->
        [date |-> rows[i].date, hospital |-> rows[i].hospital, ward |-> rows[i].ward,
         bed_id |-> rows[i].bed_id, status |-> StatusLabel(rows[i].occupied)]]

(* ------------------------------- state -------------------------------- *)
VARIABLES
    now,        \* datetime.today() as of the latest script run
    stream,     \* the raw stream that seed 42 produces
    rng,        \* position of numpy's global generator in that stream
    cache,      \* st.cache_data's entries for generate_data: <<>> or <<DataFrame>>
    evicted,    \* history: the entry that the latest cache clearing dropped
    df,         \* the script's df (line 55)
    criteria,   \* the sidebar widgets' values
    data,       \* the filtered frame
    kpi, trend, ward_util, hospital_util, critical_cmp, daily_load,
    availability_dist, heatmap, table

views == <<kpi, trend, ward_util, hospital_util, critical_cmp, daily_load,
           availability_dist, heatmap, table>>
vars == <<now, stream, rng, cache, evicted, df, criteria, data, views>>

Init ==
    /\ now \in {Timestamp(0, s) : s \in 0..MaxTod}
    /\ stream \in Streams
    /\ rng = 0
    /\ cache = <<>>
    /\ evicted = <<>>
    /\ df = <<>>
    /\ criteria = Criteria("All", {}, "All", FALSE, 0, 0)
    /\ data = <<>>
    /\ kpi = Kpi(<<>>)
    /\ trend = <<>> /\ ward_util = <<>> /\ hospital_util = <<>>
    /\ critical_cmp = <<>> /\ daily_load = <<>> /\ availability_dist = <<>>
    /\ heatmap = <<>> /\ table = <<>>

\* df = generate_data() under @st.cache_data: the function takes no argument,
\* so the cache has one entry, reused until the cache is cleared.
CallGenerate(t) ==
    /\ IF cache = <<>>
       THEN LET out == generate_data(t, stream)
            IN /\ cache' = <<out.data>>
               /\ rng' = out.rng
       ELSE UNCHANGED <<cache, rng>>
    /\ df' = cache'[1]

\* Lines 86-215 of one script run with the widgets holding criteria'.
Pipeline ==
    /\ data' = Filter(df', criteria')
    /\ kpi' = Kpi(data')
    /\ trend' = Trend(data')
    /\ ward_util' = WardUtil(data')
    /\ hospital_util' = HospitalUtil(data')
    /\ critical_cmp' = CriticalCmp(data')
    /\ daily_load' = DailyLoad(data')
    /\ availability_dist' = AvailabilityDist(data')
    /\ heatmap' = Heatmap(data')
    /\ table' = LiveTable(data')

\* A page load (or reload) at time t: the whole script with default widgets.
Rerun(t) ==
    /\ NotBefore(t, now)
    /\ now' = t
    /\ CallGenerate(t)
    /\ criteria' = DefaultCriteria(df')
    /\ Pipeline
    /\ UNCHANGED <<stream, evicted>>

\* A widget interaction at time t: the whole script with one widget changed.
Interact(t) ==
    /\ df # <<>>
    /\ NotBefore(t, now)
    /\ now' = t
    /\ CallGenerate(t)
    /\ criteria' \in OneChange(criteria, df')
    /\ Pipeline
    /\ UNCHANGED <<stream, evicted>>

\* The cached entry is dropped (cache cleared, or the process restarted).
ClearCache ==
    /\ cache # <<>>
    /\ evicted' = cache
    /\ cache' = <<>>
    /\ UNCHANGED <<now, stream, rng, df, criteria, data, views>>

\* The whole system.  The specifications below restrict it to the actions
\* and inputs their properties are about, which keeps each one enumerable.
Next ==
    \/ \E t \in Times : Rerun(t)
    \/ \E t \in Times : Interact(t)
    \/ ClearCache

Spec == Init /\ [][Next]_vars

\* The generator and its cache over time: page loads and cache clearings.
NextGen ==
    \/ \E t \in Times : Rerun(t)
    \/ ClearCache

SpecGen == Init /\ [][NextGen]_vars

\* The generator at one instant: page loads and cache clearings, clock held.
NextData ==
    \/ Rerun(now)
    \/ ClearCache

SpecData == Init /\ [][NextData]_vars

\* One session at one instant: a page load followed by widget interactions,
\* on the stream StreamFrom(0), opened at a time of day other than midnight.
InitPipe == Init /\ stream = StreamFrom(0) /\ now = Timestamp(0, 1)

NextPipe ==
    \/ Rerun(now)
    \/ Interact(now)

SpecPipe == InitPipe /\ [][NextPipe]_vars

(* ---------------------- properties of the dataset --------------------- *)
Rows(d) == {d[i] : i \in DOMAIN d}

\* The (date, hospital, ward) triples of dataset d.
Triples(d) ==
    {<<x, h, w>> : x \in Column(d, "date"),
                   h \in {hospitals[i] : i \in DOMAIN hospitals},
                   w \in {wards[i] : i \in DOMAIN wards}}

RowCount(d, g) ==
    Cardinality({i \in DOMAIN d :
        d[i].date = g[1] /\ d[i].hospital = g[2] /\ d[i].ward = g[3]})

OccupiedCount(d, g) ==
    Cardinality({i \in DOMAIN d :
        /\ d[i].date = g[1] /\ d[i].hospital = g[2] /\ d[i].ward = g[3]
        /\ d[i].occupied = 1})

\* The ward capacities as the specification states them.
FixedCapacity == [ICU |-> 20, Emergency |-> 30, General |-> 50, Maternity |-> 25]

\* The calendar day a dataset's window ends at.
RefDay(d) == DateOf(d[Len(d)].date)

\* C1: in the generated dataset the window has Periods dates, and every
\* (date, hospital, ward) triple has exactly as many rows as the ward's fixed
\* capacity (ICU 20, Emergency 30, General 50, Maternity 25), whatever the draws.
C1_RowsEqualCapacity ==
    df # <<>> =>
        /\ Cardinality(Column(df, "date")) = Periods
        /\ \A g \in Triples(df) : RowCount(df, g) = FixedCapacity[g[3]]

\* A dataset has been generated and holds a full 25-row Maternity group.
C1_Witness ==
    /\ df # <<>>
    /\ \E g \in Triples(df) : g[3] = "Maternity" /\ RowCount(df, g) = 25

\* C2: in the generated dataset every (date, hospital, ward) group has
\* floor(capacity*0.5) <= occupied_count < capacity, whatever the draws.
C2_OccupiedBounds ==
    df # <<>> =>
        \A g \in Triples(df) :
            /\ FixedCapacity[g[3]] \div 2 <= OccupiedCount(df, g)
            /\ OccupiedCount(df, g) < FixedCapacity[g[3]]

\* A dataset in which one group sits on the lower bound and another on the
\* upper bound capacity - 1.
C2_Witness ==
    /\ df # <<>>
    /\ \E g \in Triples(df) : OccupiedCount(df, g) = FixedCapacity[g[3]] \div 2
    /\ \E g \in Triples(df) : OccupiedCount(df, g) = FixedCapacity[g[3]] - 1

\* C3 as stated: every group of every ward, Maternity (capacity 25) included,
\* is at least half-full and never saturated: capacity/2 <= occupied_count <
\* capacity, with capacity/2 the exact half.
C3_AtLeastHalfFull ==
    df # <<>> =>
        \A g \in Triples(df) :
            /\ 2 * OccupiedCount(df, g) >= FixedCapacity[g[3]]
            /\ OccupiedCount(df, g) < FixedCapacity[g[3]]

\* C3 as amended: no group is saturated, a group of an even capacity is at
\* least half-full, and a group of an odd capacity (Maternity, 25) holds at
\* least (capacity - 1)/2 occupied beds, which is below half.
C3_HalfRoundedDown ==
    df # <<>> =>
        \A g \in Triples(df) :
            /\ 2 * OccupiedCount(df, g) >= FixedCapacity[g[3]] - (FixedCapacity[g[3]] % 2)
            /\ OccupiedCount(df, g) < FixedCapacity[g[3]]

\* A dataset with a Maternity group of 12 occupied beds out of 25.
C3_Witness ==
    /\ df # <<>>
    /\ \E g \in Triples(df) : g[3] = "Maternity" /\ OccupiedCount(df, g) = 12

\* The number a bed_id was formatted from.
DigitVal(ch) == CHOOSE v \in 0..9 : DigitChar(v) = ch
RECURSIVE ParseDigits(_)
ParseDigits(ds) ==
    IF Len(ds) = 1 THEN DigitVal(ds[1])
    ELSE 10 * ParseDigits(SubSeq(ds, 1, Len(ds) - 1)) + DigitVal(ds[Len(ds)])
BedNoOf(bed_id) == ParseDigits(SubSeq(bed_id, 3, Len(bed_id)))

\* C4: bed_id values are unique across the whole generated dataset, and the
\* number in the bed_id grows strictly from each row to the next over the
\* entire generation (the counter is never reset).
C4_BedIdUnique ==
    df # <<>> =>
        /\ Cardinality(Column(df, "bed_id")) = Len(df)
        /\ \A i \in 1..(Len(df) - 1) : BedNoOf(df[i].bed_id) < BedNoOf(df[i + 1].bed_id)

\* A dataset whose ids run from B-1 in the first row to a three-digit id in
\* the last row, across several dates, hospitals and wards.
C4_Witness ==
    /\ df # <<>>
    /\ df[1].bed_id = <<"B", "-", "1">>
    /\ BedNoOf(df[Len(df)].bed_id) = Len(df)
    /\ Len(df) >= 100

\* C5: two uncached runs of generate_data on the same calendar day (the run
\* whose entry the cache dropped, and the run that refilled the cache) yield
\* identical datasets, whatever the times of day of the two runs.
C5_SameDaySameData ==
    (cache # <<>> /\ evicted # <<>> /\ RefDay(cache[1]) = RefDay(evicted[1]))
        => cache[1] = evicted[1]

\* C10: the dataset a render cycle reads is the one generated for the
\* calendar day of that render cycle: its window ends at today.
C10_DatasetOfToday ==
    df # <<>> => RefDay(df) = DateOf(now)

(* ---------------------- properties of the pipeline -------------------- *)
\* The five predicates of a FilterCriteria on one row.
Satisfies(r, c) ==
    /\ c.hospital = "All" \/ r.hospital = c.hospital
    /\ r.ward \in c.ward
    /\ ~c.critical_view \/ r.ward \in {"ICU", "Emergency"}
    /\ \/ c.bed_status = "All"
       \/ c.bed_status = "Available" /\ r.occupied = 0
       \/ c.bed_status = "Occupied" /\ r.occupied = 1
    /\ c.date_range[1] <= DateOf(r.date)
    /\ DateOf(r.date) <= c.date_range[2]

\* C6: the filtered subset is exactly the base rows that satisfy all five
\* predicates together (hospital, ward set, critical-only intersected with the
\* ward set, bed status, inclusive date range), each kept once.
C6_FilterIsConjunction ==
    /\ Rows(data) = {r \in Rows(df) : Satisfies(r, criteria)}
    /\ Len(data) = Cardinality(Rows(data))

\* Critical-only with wards {ICU, General} and a one-day range ending at the
\* window's last day: rows are kept, all of them ICU rows of that day.
C6_Witness ==
    /\ criteria.critical_view
    /\ criteria.ward = {"ICU", "General"}
    /\ criteria.date_range = <<SliderMax(df), SliderMax(df)>>
    /\ data # <<>>
    /\ \A r \in Rows(data) : r.ward = "ICU" /\ DateOf(r.date) = SliderMax(df)
    /\ Len(data) < Len(df)

\* No division by zero happened in the percentages of a view.
Defined(view) == \A i \in DOMAIN view : view[i].pct.den # 0

\* C7: when the ward set is empty the filtered subset is empty, and whenever
\* the filtered subset is empty every aggregate view and the live table are
\* empty, no percentage was divided by zero, and the KPI percentage is 0.
C7_EmptyDegrades ==
    /\ (df # <<>> /\ criteria.ward = {}) => data = <<>>
    /\ (df # <<>> /\ data = <<>>) =>
          /\ trend = <<>> /\ ward_util = <<>> /\ hospital_util = <<>>
          /\ critical_cmp = <<>> /\ daily_load = <<>> /\ availability_dist = <<>>
          /\ heatmap = <<>> /\ table = <<>>
          /\ kpi.total_beds = 0 /\ kpi.occupied = 0 /\ kpi.available = 0
          /\ kpi.occ_rate = Frac(0, 1)

\* A render cycle over a generated dataset with the multiselect cleared.
C7_Witness ==
    /\ df # <<>>
    /\ criteria.ward = {}
    /\ data = <<>>
    /\ kpi.occ_rate.num = 0

InRange(pct) == pct.den > 0 /\ 0 <= pct.num /\ pct.num <= 100 * pct.den

PctViewOk(view) ==
    \A i \in DOMAIN view :
        /\ view[i].total > 0
        /\ view[i].pct = Frac(view[i].occupied * 100, view[i].total)
        /\ InRange(view[i].pct)

\* C8: every occupancy percentage of the pipeline (the KPI and each row of the
\* trend, ward, hospital and critical views) is occupied/total*100 over a
\* non-empty group and lies in [0, 100]; the KPI is exactly 0 when total is 0.
C8_PercentagesInRange ==
    /\ PctViewOk(trend) /\ PctViewOk(ward_util)
    /\ PctViewOk(hospital_util) /\ PctViewOk(critical_cmp)
    /\ InRange(kpi.occ_rate)
    /\ kpi.total_beds > 0 => kpi.occ_rate = Frac(kpi.occupied * 100, kpi.total_beds)
    /\ kpi.total_beds = 0 => kpi.occ_rate.num = 0

\* A render cycle whose subset spans both ward categories, with a KPI strictly
\* between 0 and 100 and an occupied bed on every date of the trend.
C8_Witness ==
    /\ Len(critical_cmp) = 2
    /\ kpi.total_beds > 0
    /\ 0 < kpi.occ_rate.num /\ kpi.occ_rate.num < 100 * kpi.occ_rate.den
    /\ \A i \in DOMAIN trend : trend[i].pct.num > 0

StatusesOf(rows) == {StatusLabel(r.occupied) : r \in Rows(rows)}
CountOf(rows, status) ==
    Cardinality({i \in DOMAIN rows : StatusLabel(rows[i].occupied) = status})

\* C9 as stated: after every render cycle the availability distribution has
\* exactly two rows, one for Available and one for Occupied, each with the raw
\* count of filtered rows of that status (possibly 0).
C9_AlwaysTwoRows ==
    df # <<>> =>
        /\ Len(availability_dist) = 2
        /\ {availability_dist[i].status : i \in DOMAIN availability_dist}
              = {"Available", "Occupied"}
        /\ \A i \in DOMAIN availability_dist :
              availability_dist[i].count = CountOf(data, availability_dist[i].status)

\* C9 as amended: the availability distribution has one row for each status
\* that occurs among the filtered rows, with its raw count, and no row for a
\* status that does not occur: two rows when the bed-status filter is All and
\* the subset is non-empty, at most one row under Available or Occupied, and
\* none when the subset is empty.
C9_RowPerPresentStatus ==
    df # <<>> =>
        /\ {availability_dist[i].status : i \in DOMAIN availability_dist}
              = StatusesOf(data)
        /\ Len(availability_dist) = Cardinality(StatusesOf(data))
        /\ \A i \in DOMAIN availability_dist :
              /\ availability_dist[i].count = CountOf(data, availability_dist[i].status)
              /\ availability_dist[i].count > 0
        /\ (criteria.bed_status = "All" /\ data # <<>>) => Len(availability_dist) = 2
        /\ criteria.bed_status # "All" => Len(availability_dist) <= 1
        /\ data = <<>> => availability_dist = <<>>

\* A render cycle with the bed-status filter on Available over a non-empty
\* subset: the view holds the single row Available.
C9_Witness ==
    /\ criteria.bed_status = "Available"
    /\ data # <<>>
    /\ Len(availability_dist) = 1
    /\ availability_dist[1].status = "Available"
====
